---- MODULE Spec2Model ----
(***************************************************************************)
(* The two Klipper API clients of elements/001-hydrogen:                   *)
(*   3dstatus/3dstatus.py     blocking sockets, one-shot status query      *)
(*   deuterium/klippertest.py asyncio streams, status subscription         *)
(* Both run get_printer_status: resolve the socket path, then up to        *)
(* max_attempts times connect, send objects/list, read the reply with      *)
(* receive_response and go on with the query or the subscription.          *)
(* The peer (Klipper) is the environment: it accepts or refuses            *)
(* connections, writes frames in pieces and closes when it likes.          *)
(* Time is counted in tenths of a second.                                  *)
(***************************************************************************)
EXTENDS Integers, Sequences, FiniteSets, TLC

\* ---------------------------------------------------------------- bounds
\* frames the peer writes in one run
MaxFrames == 3
\* bytes of JSON text in one frame (the terminator comes on top)
TextLen == 2
\* receive_response results remembered per connection
MaxRets == 2

\* ------------------------------------------------------ program constants
max_attempts == 3
\* time.sleep(delay), delay = 2 s
delay == 20
\* asyncio.sleep(1) in the subscription loop
PollSleep == 10
\* time.sleep(0.1) in the ECONNREFUSED branch of 3dstatus.py
RefusedSleep == 1
ListId == 123
QueryId == 1
SubscribeId == 456
\* "no id" of a notification, None of klipper_uds
NoId == 0

Clients == {"3dstatus", "klippertest"}

\* 3dstatus.py imports json, socket, psutil, os, re, logging, time and
\* jsonschema; the name errno is used at line 167 and never bound.
\* ErrnoDefinedMut is the script with import errno added.
ErrnoDefinedMut == TRUE
ErrnoDefined == FALSE

\* ------------------------------------------------------------ JSON frames
\* The documents a peer sends, by the keys the clients look at.
\* "ack" is the reply to objects/subscribe (id 456, result, no params),
\* "notify_nostatus" a notification whose params has no status key.
Kinds == {"list_ok", "query_ok", "error_list", "error_query", "notify", "garbage",
          "ack", "notify_nostatus"}

\* the terminator byte b'\x03'
ETX == <<0, "ETX", 0>>

\* Byte i of the text of frame number s carrying document k.
TextByte(s, k, i) == <<s, k, i>>
FrameText(s, k) == [i \in 1..TextLen |-> TextByte(s, k, i)]
\* json.dumps(...) + "\x03"
Encode(s, k) == Append(FrameText(s, k), ETX)

\* json.loads: the text parses iff it is the whole text of one frame whose
\* document is JSON; anything else raises JSONDecodeError.
IsJson(text) ==
    /\ Len(text) = TextLen
    /\ text[1][2] \notin {"ETX", "garbage"}
    /\ text = FrameText(text[1][1], text[1][2])
KindOf(text) == text[1][2]
SeqOf(text) == text[1][1]

\* "result" in data
HasResult(k) == k \in {"list_ok", "query_ok", "ack"}
\* data["result"]["objects"] exists
HasObjects(k) == k = "list_ok"
\* data["result"]["status"]["toolhead"]["position"] and ["print_stats"]["state"]
HasStatus(k) == k = "query_ok"
\* "params" in update_data, and update_data["params"]["status"]
HasParams(k) == k \in {"notify", "notify_nostatus"}
HasParamsStatus(k) == k = "notify"
HasError(k) == k \in {"error_list", "error_query"}
IdOf(k) ==
    CASE k = "list_ok" -> ListId
      [] k = "error_list" -> ListId
      [] k = "query_ok" -> QueryId
      [] k = "error_query" -> QueryId
      [] k = "ack" -> SubscribeId
      [] OTHER -> NoId

\* ----------------------------------------------------------- byte helpers
RECURSIVE IndexOfETX(_, _)
\* position of the first terminator at or after i, 0 if none
IndexOfETX(data, i) ==
    IF i > Len(data) THEN 0
    ELSE IF data[i] = ETX THEN i ELSE IndexOfETX(data, i + 1)
HasETX(data) == IndexOfETX(data, 1) # 0

\* klippertest.py: response_data.split(b'\x03')[0]
SplitFirst(data) ==
    IF HasETX(data) THEN SubSeq(data, 1, IndexOfETX(data, 1) - 1) ELSE data

RECURSIVE LStrip(_)
LStrip(data) ==
    IF data # <<>> /\ data[1] = ETX THEN LStrip(Tail(data)) ELSE data
RECURSIVE RStrip(_)
RStrip(data) ==
    IF data # <<>> /\ data[Len(data)] = ETX
    THEN RStrip(SubSeq(data, 1, Len(data) - 1)) ELSE data
\* 3dstatus.py: response_data.decode().strip('\x03')
StripETX(data) == RStrip(LStrip(data))

\* ------------------------------------------------------------------ state
VARIABLES
    client,     \* which script runs
    pc,         \* position of get_printer_status
    attempt,    \* the loop variable of for attempt in range(max_attempts)
    tries,      \* connection attempts made so far
    open,       \* sockets opened and not closed
    stage,      \* which reply is awaited: "list", "query" or "sub"
    sent,       \* ids of the requests sent on the current connection
    wire,       \* bytes written by the peer, not yet read by recv/read
    peerRest,   \* rest of the frame the peer is writing
    peerClosed, \* the peer has closed the current connection
    nwritten,   \* frames the peer has started to write in this run
    base,       \* nwritten when the current connection was made
    buf,        \* response_data of the running receive_response
    response,   \* what the last receive_response returned
    rets,       \* the first MaxRets results of receive_response on this connection
    out,        \* what the script printed
    lastSleep,  \* duration of the last sleep, 0 before the first
    failed      \* "Failed to establish communication" was logged

vars == <<client, pc, attempt, tries, open, stage, sent, wire, peerRest,
          peerClosed, nwritten, base, buf, response, rets, out, lastSleep, failed>>

Init ==
    /\ client \in Clients
    /\ pc = "resolve"
    /\ attempt = 0
    /\ tries = 0
    /\ open = 0
    /\ stage = "none"
    /\ sent = <<>>
    /\ wire = <<>>
    /\ peerRest = <<>>
    /\ peerClosed = FALSE
    /\ nwritten = 0
    /\ base = 0
    /\ buf = <<>>
    /\ response = <<>>
    /\ rets = <<>>
    /\ out = <<>>
    /\ lastSleep = 0
    /\ failed = FALSE

\* the client holds a connection the peer can write to
Connected == pc \in {"send_list", "recv", "got", "poll"}

\* complete frames the peer has written in this run
Completed == IF peerRest = <<>> THEN nwritten ELSE nwritten - 1

\* ------------------------------------------------------------------- peer
\* The peer starts frame number nwritten + 1 carrying document k and gets
\* its first n bytes onto the stream.
PeerWrite(k, n) ==
    /\ Connected
    /\ ~peerClosed
    /\ peerRest = <<>>
    /\ nwritten < MaxFrames
    /\ nwritten' = nwritten + 1
    /\ wire' = wire \o SubSeq(Encode(nwritten + 1, k), 1, n)
    /\ peerRest' = SubSeq(Encode(nwritten + 1, k), n + 1, TextLen + 1)
    /\ UNCHANGED <<client, pc, attempt, tries, open, stage, sent, peerClosed,
                   base, buf, response, rets, out, lastSleep, failed>>

\* The next n bytes of the frame being written arrive.
PeerFlush(n) ==
    /\ Connected
    /\ ~peerClosed
    /\ n <= Len(peerRest)
    /\ wire' = wire \o SubSeq(peerRest, 1, n)
    /\ peerRest' = SubSeq(peerRest, n + 1, Len(peerRest))
    /\ UNCHANGED <<client, pc, attempt, tries, open, stage, sent, peerClosed,
                   nwritten, base, buf, response, rets, out, lastSleep, failed>>

\* The peer closes its end; what it had not written yet never arrives.
PeerClose ==
    /\ Connected
    /\ ~peerClosed
    /\ peerClosed' = TRUE
    /\ UNCHANGED <<client, pc, attempt, tries, open, stage, sent, wire, peerRest,
                   nwritten, base, buf, response, rets, out, lastSleep, failed>>

\* ----------------------------------------------------------------- driver
\* find_processes_and_config_files and parse_config_files, once, before the
\* loop: klipper_uds is found or it is None and the function returns.
Resolve ==
    /\ pc = "resolve"
    /\ \E found \in BOOLEAN : pc' = IF found THEN "connect" ELSE "done"
    /\ UNCHANGED <<client, attempt, tries, open, stage, sent, wire, peerRest,
                   peerClosed, nwritten, base, buf, response, rets, out,
                   lastSleep, failed>>

\* The for statement takes the next value of attempt, or the loop is over
\* and the final error is logged.
NextAttempt ==
    /\ attempt' = attempt + 1
    /\ IF attempt + 1 < max_attempts
       THEN pc' = "connect" /\ failed' = failed
       ELSE pc' = "done" /\ failed' = TRUE

\* The try block of the attempt is left by an exception or by running off
\* its end: 3dstatus.py leaves its with block, which closes the socket;
\* klippertest.py closes nothing. Both go on to the sleep.
EndAttempt ==
    /\ pc' = "sleep"
    /\ open' = IF client = "3dstatus" THEN open - 1 ELSE open
    /\ wire' = <<>>
    /\ peerRest' = <<>>
    /\ peerClosed' = FALSE

\* Writing to a connection the peer has closed fails. 3dstatus.py: sendall
\* raises, except Exception, the with block closes the socket.
\* klippertest.py: the transport closes its socket on the write error and
\* drain raises, except Exception. Both go on to the sleep.
SendFailed ==
    /\ pc' = "sleep"
    /\ open' = open - 1
    /\ wire' = <<>>
    /\ peerRest' = <<>>
    /\ peerClosed' = FALSE

ConnectErrors == {"ECONNREFUSED", "ENOENT"}

\* A new connection is made and the peer accepts it.
ConnectOk ==
    /\ pc = "connect"
    /\ tries' = tries + 1
    /\ open' = open + 1
    /\ pc' = "send_list"
    /\ stage' = "list"
    /\ sent' = <<>>
    /\ rets' = <<>>
    /\ base' = nwritten
    /\ wire' = <<>>
    /\ peerRest' = <<>>
    /\ peerClosed' = FALSE
    /\ UNCHANGED <<client, attempt, nwritten, buf, response, out, lastSleep, failed>>

\* The connection fails. 3dstatus.py: the handler of socket.error reads
\* errno.ECONNREFUSED; were errno bound, a refusal would sleep 0.1 s and
\* continue; as it is not, NameError goes to except Exception. The socket
\* made by the with statement is closed again. klippertest.py: the error of
\* open_unix_connection goes to except Exception.
ConnectFail ==
    /\ pc = "connect"
    /\ tries' = tries + 1
    /\ \E err \in ConnectErrors :
         IF client = "3dstatus" /\ ErrnoDefined /\ err = "ECONNREFUSED"
         THEN /\ lastSleep' = RefusedSleep
              /\ NextAttempt
         ELSE /\ pc' = "sleep"
              /\ UNCHANGED <<attempt, lastSleep, failed>>
    /\ UNCHANGED <<client, open, stage, sent, wire, peerRest, peerClosed,
                   nwritten, base, buf, response, rets, out>>

\* The requests written before the first receive_response: objects/list
\* alone. FirstRequestsMut is the slip of writing the second request too
\* before any reply is read.
FirstRequestsMut == <<ListId, QueryId>>
FirstRequests == <<ListId>>

\* sock.sendall(list_request) / send_request(writer, list_request)
SendList ==
    /\ pc = "send_list"
    /\ IF peerClosed
       THEN /\ SendFailed
            /\ UNCHANGED sent
       ELSE /\ sent' = sent \o FirstRequests
            /\ pc' = "recv"
            /\ UNCHANGED <<open, wire, peerRest, peerClosed>>
    /\ UNCHANGED <<client, attempt, tries, stage, nwritten, base, buf, response,
                   rets, out, lastSleep, failed>>

\* ------------------------------------------------------- receive_response
\* what receive_response makes of the bytes it has collected
ResponseString(data) ==
    IF client = "3dstatus" THEN StripETX(data) ELSE SplitFirst(data)

\* response_data is a local that starts as b'' in every call: nothing of one
\* call is left for the next.
InitialBuffer(old) == <<>>

\* receive_response returns; how tells what ended its loop: a chunk with
\* the terminator ("frame"), the empty chunk ("eof") or socket.error
\* ("timeout")
Return(data, how) ==
    /\ response' = ResponseString(data)
    /\ rets' = IF Len(rets) < MaxRets
               THEN Append(rets, [text |-> ResponseString(data), n |-> Completed,
                                  how |-> how])
               ELSE rets
    /\ buf' = InitialBuffer(data)
    /\ pc' = "got"

\* recv(4096) / read(4096) returns the bytes that have arrived.
\* 3dstatus.py goes on reading; klippertest.py stops at a terminator.
RecvChunk ==
    /\ pc = "recv"
    /\ wire # <<>>
    /\ wire' = <<>>
    /\ IF client = "klippertest" /\ HasETX(buf \o wire)
       THEN Return(buf \o wire, "frame")
       ELSE /\ buf' = buf \o wire
            /\ UNCHANGED <<pc, response, rets>>
    /\ UNCHANGED <<client, attempt, tries, open, stage, sent, peerRest, peerClosed,
                   nwritten, base, out, lastSleep, failed>>

\* The peer has closed and nothing is left to read: the chunk is empty.
RecvEOF ==
    /\ pc = "recv"
    /\ wire = <<>>
    /\ peerClosed
    /\ Return(buf, "eof")
    /\ UNCHANGED <<client, attempt, tries, open, stage, sent, wire, peerRest,
                   peerClosed, nwritten, base, out, lastSleep, failed>>

\* 3dstatus.py only, settimeout(10): nothing arrives for 10 s, recv raises
\* socket.timeout, which is a socket.error: the loop breaks.
\* klippertest.py sets no timeout.
RecvTimeout ==
    /\ pc = "recv"
    /\ client = "3dstatus"
    /\ wire = <<>>
    /\ ~peerClosed
    /\ Return(buf, "timeout")
    /\ UNCHANGED <<client, attempt, tries, open, stage, sent, wire, peerRest,
                   peerClosed, nwritten, base, out, lastSleep, failed>>

\* ------------------------------------------------- get_printer_status, cont.
\* json.loads(response), if "result" in data, data["result"]["objects"]:
\* the reply to objects/list is used only if all three go through; a
\* JSONDecodeError or KeyError and the else branch all end the attempt.
\* ListAcceptedMut is the slip of using whatever parses.
ListAcceptedMut(text) == IsJson(text)
ListAccepted(text) ==
    /\ IsJson(text)
    /\ HasResult(KindOf(text))
    /\ HasObjects(KindOf(text))

\* the same for the reply to printer.objects.query and its
\* data["result"]["status"]["toolhead"]["position"], ["print_stats"]["state"]
QueryAccepted(text) ==
    /\ IsJson(text)
    /\ HasResult(KindOf(text))
    /\ HasStatus(KindOf(text))

\* the two status lines printed from the reply to the query: the position
\* and the state of that reply. StatusLineMut is the slip of printing a
\* default position instead.
StatusLineMut(text) == <<"status", 0>>
StatusLine(text) == <<"status", SeqOf(text)>>

\* 3dstatus.py, the reply to objects/list: json.loads, the result test, the
\* print of the objects and the sendall of printer.objects.query.
HandleList3d ==
    /\ pc = "got"
    /\ client = "3dstatus"
    /\ stage = "list"
    /\ IF ListAccepted(response)
       THEN /\ out' = Append(out, <<"objects", SeqOf(response)>>)
            /\ IF peerClosed
               THEN /\ SendFailed
                    /\ UNCHANGED <<sent, stage>>
               ELSE /\ sent' = Append(sent, QueryId)
                    /\ stage' = "query"
                    /\ pc' = "recv"
                    /\ UNCHANGED <<open, wire, peerRest, peerClosed>>
       ELSE /\ EndAttempt
            /\ UNCHANGED <<out, sent, stage>>
    /\ UNCHANGED <<client, attempt, tries, nwritten, base, buf, response, rets,
                   lastSleep, failed>>

\* 3dstatus.py, the reply to printer.objects.query: json.loads, the result
\* test, the two prints and the return, which leaves the with block.
HandleQuery3d ==
    /\ pc = "got"
    /\ client = "3dstatus"
    /\ stage = "query"
    /\ IF QueryAccepted(response)
       THEN /\ out' = Append(out, StatusLine(response))
            /\ pc' = "done"
            /\ open' = open - 1
            /\ wire' = <<>>
            /\ peerRest' = <<>>
            /\ peerClosed' = FALSE
       ELSE /\ EndAttempt
            /\ UNCHANGED out
    /\ UNCHANGED <<client, attempt, tries, stage, sent, nwritten, base, buf,
                   response, rets, lastSleep, failed>>

\* klippertest.py, the reply to objects/list: the emptiness test,
\* json.loads, the result test, the prints and the subscribe request.
HandleListK ==
    /\ pc = "got"
    /\ client = "klippertest"
    /\ stage = "list"
    /\ IF response # <<>> /\ ListAccepted(response)
       THEN /\ out' = Append(out, <<"objects", SeqOf(response)>>)
            /\ IF peerClosed
               THEN /\ SendFailed
                    /\ UNCHANGED <<sent, stage>>
               ELSE /\ sent' = Append(sent, SubscribeId)
                    /\ stage' = "sub"
                    /\ pc' = "recv"
                    /\ UNCHANGED <<open, wire, peerRest, peerClosed>>
       ELSE /\ EndAttempt
            /\ UNCHANGED <<out, sent, stage>>
    /\ UNCHANGED <<client, attempt, tries, nwritten, base, buf, response, rets,
                   lastSleep, failed>>

\* print_printer_status(update_data["params"]["status"]): the snapshot of
\* the update just read. SnapshotLineMut is the slip of printing from data,
\* the reply to objects/list, instead of update_data.
SnapshotLineMut(text) == <<"snapshot", base + 1>>
SnapshotLine(text) == <<"snapshot", SeqOf(text)>>

\* klippertest.py, what one round of the while True loop does with the
\* update read: an empty update goes to asyncio.sleep(1); json.loads or
\* update_data["params"]["status"] raising goes to except Exception, which
\* breaks the loop; a document without params is passed over; one with
\* params.status is printed. UpdateOutcomeMut is the slip of continue for
\* break on an update that does not parse.
UpdateOutcomeMut(text) ==
    IF text = <<>> THEN "poll"
    ELSE IF ~IsJson(text) THEN "skip"
    ELSE IF ~HasParams(KindOf(text)) THEN "skip"
    ELSE IF HasParamsStatus(KindOf(text)) THEN "print"
    ELSE "break"
UpdateOutcome(text) ==
    IF text = <<>> THEN "poll"
    ELSE IF ~IsJson(text) THEN "break"
    ELSE IF ~HasParams(KindOf(text)) THEN "skip"
    ELSE IF HasParamsStatus(KindOf(text)) THEN "print"
    ELSE "break"

\* klippertest.py, one round of the while True loop after receive_response
HandleUpdateK ==
    /\ pc = "got"
    /\ client = "klippertest"
    /\ stage = "sub"
    /\ IF UpdateOutcome(response) = "poll"
       THEN /\ pc' = "poll"
            /\ UNCHANGED <<out, open, wire, peerRest, peerClosed>>
       ELSE IF UpdateOutcome(response) = "skip"
       THEN /\ pc' = "recv"
            /\ UNCHANGED <<out, open, wire, peerRest, peerClosed>>
       ELSE IF UpdateOutcome(response) = "print"
       THEN /\ out' = Append(out, SnapshotLine(response))
            /\ pc' = "recv"
            /\ UNCHANGED <<open, wire, peerRest, peerClosed>>
       ELSE /\ EndAttempt
            /\ UNCHANGED out
    /\ UNCHANGED <<client, attempt, tries, stage, sent, nwritten, base, buf,
                   response, rets, lastSleep, failed>>

\* await asyncio.sleep(1) after an empty update, then the loop reads again
Poll ==
    /\ pc = "poll"
    /\ lastSleep' = PollSleep
    /\ pc' = "recv"
    /\ UNCHANGED <<client, attempt, tries, open, stage, sent, wire, peerRest,
                   peerClosed, nwritten, base, buf, response, rets, out, failed>>

\* time.sleep(delay) at the end of the loop body, then the next attempt or
\* the final error
Sleep ==
    /\ pc = "sleep"
    /\ lastSleep' = delay
    /\ NextAttempt
    /\ UNCHANGED <<client, tries, open, stage, sent, wire, peerRest, peerClosed,
                   nwritten, base, buf, response, rets, out>>

\* klippertest.py, an interrupt (SIGINT) while the subscription loop is in
\* receive_response. It reaches the coroutine in one of two ways, by the
\* Python that runs the script: asyncio.run cancels the task and
\* CancelledError is thrown into the await, which no except clause of the
\* script catches (except Exception does not), so get_printer_status is
\* abandoned as it stands; or KeyboardInterrupt is raised inside the try of
\* the loop, except KeyboardInterrupt prints and breaks, and control runs
\* on to asyncio.sleep(delay) and the for loop. Neither way closes the
\* writer.
Interrupts == {"CancelledError", "KeyboardInterrupt"}

Interrupt ==
    /\ client = "klippertest"
    /\ pc = "recv"
    /\ stage = "sub"
    /\ \E how \in Interrupts :
         IF how = "KeyboardInterrupt"
         THEN /\ out' = Append(out, <<"stopped", 0>>)
              /\ EndAttempt
         ELSE /\ pc' = "cancelled"
              /\ wire' = <<>>
              /\ peerRest' = <<>>
              /\ peerClosed' = FALSE
              /\ UNCHANGED <<out, open>>
    /\ buf' = <<>>
    /\ UNCHANGED <<client, attempt, tries, stage, sent, nwritten, base,
                   response, rets, lastSleep, failed>>

ClientNext ==
    \/ Resolve
    \/ ConnectOk
    \/ ConnectFail
    \/ SendList
    \/ RecvChunk
    \/ RecvEOF
    \/ RecvTimeout
    \/ HandleList3d
    \/ HandleQuery3d
    \/ HandleListK
    \/ HandleUpdateK
    \/ Poll
    \/ Sleep

PeerNext ==
    \/ \E k \in Kinds, n \in 1..(TextLen + 1) : PeerWrite(k, n)
    \/ \E n \in 1..TextLen : PeerFlush(n)
    \/ PeerClose

Next == ClientNext \/ PeerNext \/ Interrupt

Spec == Init /\ [][Next]_vars

\* The scripts run: a step of the client that can be taken is taken.
\* The peer is under no obligation.
FairSpec == Spec /\ WF_vars(ClientNext)

\* ------------------------------------------------------------- properties
\* the id of the request whose reply is awaited
RequestId == IF stage = "list" THEN ListId
             ELSE IF stage = "query" THEN QueryId ELSE SubscribeId

\* the bytes are the beginning of the encoding of one frame
IsFramePrefix(data) ==
    /\ data # <<>>
    /\ data[1] # ETX
    /\ Len(data) <= TextLen + 1
    /\ data = SubSeq(Encode(data[1][1], data[1][2]), 1, Len(data))

\* C1: when the peer had written the first i frames of a connection back to
\* back by the time the first receive_response returned, the first i calls
\* of receive_response on that connection return the texts of those frames,
\* in order: what was read after a terminator is there for the next call.
BackToBackFrames ==
    \A i \in 1..Len(rets) :
        rets[1].n >= base + i =>
            \E k \in Kinds : rets[i].text = FrameText(base + i, k)

\* C2: a frame received while the reply to request N is awaited and whose id
\* is not N is skipped: the client goes back to reading, prints nothing,
\* sends nothing and does not end the attempt.
ReplyCorrelation ==
    [][(/\ pc = "got"
        /\ stage \in {"list", "query"}
        /\ IsJson(response)
        /\ IdOf(KindOf(response)) # RequestId
        /\ pc' # pc)
       => (pc' = "recv" /\ out' = out /\ sent' = sent)]_vars

\* C3: in klippertest.py, once the peer has closed the connection on which
\* the subscription runs, the subscription loop is eventually left.
SubscriptionStops ==
    (client = "klippertest" /\ stage = "sub" /\ Connected /\ peerClosed)
        ~> ~(stage = "sub" /\ Connected)

\* C4: as long as every connection attempt has failed, at most max_attempts
\* attempts are made, each attempt after the first starts after a sleep of
\* delay, and the driver stops after exactly max_attempts attempts with the
\* failure logged.
RetryBound ==
    stage = "none" =>
        /\ tries <= max_attempts
        /\ (pc = "connect" => tries = attempt)
        /\ (pc = "connect" /\ attempt > 0 => lastSleep = delay)
        /\ (pc = "done" /\ tries > 0 => tries = max_attempts /\ failed /\ lastSleep = delay)

\* all three attempts were refused and the driver has given up
RetryBoundWitness ==
    /\ client = "3dstatus"
    /\ pc = "done"
    /\ stage = "none"
    /\ tries = max_attempts
    /\ failed

\* C5: if the peer never writes a frame, the driver eventually stops: no
\* wait for a reply lasts forever.
SilentPeerEnds ==
    [](nwritten = 0) => <>(pc = "done")

\* C6: when an attempt starts and when the driver has returned, no socket
\* opened by an earlier attempt is still open.
SocketRelease ==
    pc \in {"connect", "done"} => open = 0

\* C7: when receive_response returns while the peer is still connected and
\* what the call has read is the beginning of one frame, then the call has
\* read that whole frame, terminator included, and returns its text.
PartialFrame ==
    [][(/\ pc = "recv"
        /\ pc' = "got"
        /\ ~peerClosed
        /\ IsFramePrefix(buf \o wire))
       => (/\ HasETX(buf \o wire)
           /\ response' = FrameText((buf \o wire)[1][1], (buf \o wire)[1][2]))]_vars

\* C8: the step that handles a reply to objects/list or to
\* printer.objects.query which carries an error and no result prints
\* nothing, sends nothing and ends the attempt as failed.
ErrorReply ==
    [][(/\ pc = "got"
        /\ stage \in {"list", "query"}
        /\ IsJson(response)
        /\ HasError(KindOf(response))
        /\ ~HasResult(KindOf(response))
        /\ pc' # pc)
       => (pc' = "sleep" /\ out' = out /\ sent' = sent)]_vars

\* an error reply to objects/list has been handled
ErrorReplyWitness ==
    /\ pc = "sleep"
    /\ stage = "list"
    /\ IsJson(response)
    /\ HasError(KindOf(response))

\* the status lines among what was printed
RECURSIVE StatusLines(_)
StatusLines(o) ==
    IF o = <<>> THEN <<>>
    ELSE IF o[1][1] = "status" THEN <<o[1]>> \o StatusLines(Tail(o))
    ELSE StatusLines(Tail(o))

\* C9: in 3dstatus.py, after the reply to objects/list was accepted, the
\* step that handles a reply to printer.objects.query carrying the position
\* and the state prints the status of that very reply, which is then the
\* only status printed, and the driver returns: no failure is logged, no
\* further connection attempt is made and the socket is closed.
EndToEnd ==
    [][(/\ client = "3dstatus"
        /\ pc = "got"
        /\ stage = "query"
        /\ sent = <<ListId, QueryId>>
        /\ IsJson(response)
        /\ HasStatus(KindOf(response))
        /\ pc' # pc)
       => (/\ out' = Append(out, <<"status", SeqOf(response)>>)
           /\ StatusLines(out') = << <<"status", SeqOf(response)>> >>
           /\ pc' = "done"
           /\ ~failed'
           /\ tries' = tries
           /\ open' = 0)]_vars

\* 3dstatus.py has printed a status and returned
EndToEndWitness ==
    /\ client = "3dstatus"
    /\ pc = "done"
    /\ ~failed
    /\ StatusLines(out) # <<>>

\* C10: the snapshots printed by klippertest.py come from frames the peer
\* wrote and appear in the order in which the peer wrote those frames, each
\* at most once.
StreamOrder ==
    client = "klippertest" =>
        \A i, j \in 1..Len(out) :
            (out[i][1] = "snapshot" /\ out[j][1] = "snapshot" /\ i < j)
                => (out[i][2] >= 1 /\ out[i][2] < out[j][2] /\ out[j][2] <= nwritten)

\* two snapshots have been printed
StreamOrderWitness ==
    /\ client = "klippertest"
    /\ \E i, j \in 1..Len(out) :
           i < j /\ out[i][1] = "snapshot" /\ out[j][1] = "snapshot"

\* C11: whenever the driver goes from the sleep after a failed attempt to a
\* new attempt, it resolves the socket path and the API key again before it
\* connects.
RetryResolvesAgain ==
    [][(pc = "sleep" /\ pc' # pc /\ pc' # "done") => pc' = "resolve"]_vars

\* C12: the requests sent on a connection are objects/list and then the
\* query (3dstatus.py) or the subscription (klippertest.py); the second one
\* is sent only by the step that handles a reply to objects/list which
\* parses and carries result; the step that handles a reply without result
\* sends nothing and ends the attempt.
HandshakeRequests ==
    IF client = "3dstatus" THEN <<ListId, QueryId>> ELSE <<ListId, SubscribeId>>

HandshakeOrder ==
    [][/\ Len(sent') <= 2
       /\ sent' = SubSeq(HandshakeRequests, 1, Len(sent'))
       /\ (Len(sent') = 2 /\ sent' # sent) =>
              (/\ pc = "got"
               /\ stage = "list"
               /\ IsJson(response)
               /\ HasResult(KindOf(response)))
       /\ (/\ pc = "got"
           /\ stage = "list"
           /\ ~(IsJson(response) /\ HasResult(KindOf(response)))
           /\ pc' # pc) =>
              (sent' = sent /\ pc' = "sleep")]_vars

\* both requests of the handshake have been sent on one connection
HandshakeOrderWitness ==
    /\ Len(sent) = 2
    /\ pc = "recv"

\* C13: a successful connect resets the attempt counter, so that the
\* attempts after it count from the start again.
ConnectResetsAttempts ==
    [][(pc = "connect" /\ pc' = "send_list") => attempt' = 0]_vars

\* the subscription loop of klippertest.py has an update in hand that is
\* not empty and is not JSON
MalformedUpdate ==
    /\ client = "klippertest"
    /\ pc = "got"
    /\ stage = "sub"
    /\ response # <<>>
    /\ ~IsJson(response)

\* C14 as stated: an update that is not valid JSON is discarded and the
\* subscription loop goes on reading on the same connection.
MalformedUpdateDiscarded ==
    [][(MalformedUpdate /\ pc' # pc) => (pc' = "recv" /\ out' = out)]_vars

\* C14 as amended: an update that is not valid JSON is discarded, nothing
\* is printed or sent for it, and it ends the subscription loop: the driver
\* goes to the sleep before the next attempt.
MalformedUpdateEndsLoop ==
    [][(MalformedUpdate /\ pc' # pc)
       => (pc' = "sleep" /\ out' = out /\ sent' = sent)]_vars

\* a malformed update has ended the subscription loop
MalformedUpdateWitness ==
    /\ client = "klippertest"
    /\ pc = "sleep"
    /\ stage = "sub"
    /\ response # <<>>
    /\ ~IsJson(response)

\* C15: in the subscription loop of klippertest.py a well-formed frame is
\* printed as a snapshot if and only if it carries params.status, and no
\* well-formed frame ends the loop: the next step reads again.
NonStatusFrames ==
    [][(/\ client = "klippertest"
        /\ pc = "got"
        /\ stage = "sub"
        /\ IsJson(response)
        /\ pc' # pc)
       => (/\ pc' = "recv"
           /\ out' = IF HasParamsStatus(KindOf(response))
                     THEN Append(out, <<"snapshot", SeqOf(response)>>)
                     ELSE out)]_vars

\* C16: in 3dstatus.py, the read that completes a frame (the bytes read so
\* far contain a terminator) makes receive_response return; no close of the
\* stream and no timeout is needed.
ReturnsOnCompleteFrame ==
    [][(/\ client = "3dstatus"
        /\ pc = "recv"
        /\ wire # <<>>
        /\ wire' = <<>>
        /\ HasETX(buf \o wire))
       => pc' = "got"]_vars

\* the step of the client that handles a failed connect, a write to a
\* closed connection, a reply that does not parse, a peer that closed
\* without a reply, or a receive timeout without a reply
ErrorSeen ==
    \/ pc = "connect" /\ pc' \notin {"connect", "send_list"}
    \/ pc = "send_list" /\ peerClosed /\ pc' # pc
    \/ pc = "got" /\ ListAccepted(response) /\ stage = "list" /\ peerClosed /\ pc' # pc
    \/ pc = "got" /\ response # <<>> /\ ~IsJson(response) /\ pc' # pc
    \/ pc = "got" /\ response = <<>> /\ peerClosed /\ wire = <<>> /\ pc' # pc
    \/ pc = "got" /\ response = <<>> /\ client = "3dstatus" /\ pc' # pc

\* C17: every transport error and every parse error met inside an attempt
\* is handled inside get_printer_status as a failed attempt, which goes on
\* to the sleep; the function is not left by the error.
ErrorContained ==
    [][ErrorSeen => pc' = "sleep"]_vars

\* C18: in klippertest.py an interrupt that arrives while the subscription
\* loop waits for a frame ends get_printer_status with no socket left open:
\* the driver does not go on to the sleep and a new connection.
CancelTearsDown ==
    [][(/\ client = "klippertest"
        /\ stage = "sub"
        /\ pc = "recv"
        /\ pc' \notin {"recv", "got"})
       => (pc' \in {"done", "cancelled"} /\ open' = 0)]_vars

\* the i-th receive_response on the connection met a failure: its read
\* ended by end of stream or timeout, or what it returned does not parse
FailureAt(i) ==
    \/ rets[i].how # "frame"
    \/ rets[i].text # <<>> /\ ~IsJson(rets[i].text)

\* C19: after a read or parse failure on a connection nothing more is read
\* from it and no request is sent on it.
NoReuseAfterFailure ==
    \A i \in 1..Len(rets) :
        FailureAt(i) =>
            /\ Len(rets) = i
            /\ Len(sent) <= i
            /\ pc \notin {"recv", "poll"}

\* C20: at most one request on the connection has not had its wait for a
\* reply finished: the second request is sent only after the first
\* receive_response has returned.
SingleInFlight ==
    /\ Len(sent) <= Len(rets) + 1
    /\ (Len(sent) = 2 => Len(rets) >= 1)

\* the second request has been sent and its wait has finished, too
SingleInFlightWitness ==
    /\ Len(sent) = 2
    /\ Len(rets) = 2
    /\ pc = "got"

====
